---------------------------- MODULE Spec2Model ----------------------------
(***************************************************************************)
(* A model of the task CRUD server of src/main.rs: a single-threaded HTTP  *)
(* server that routes a raw request by literal prefix, extracts an id      *)
(* and/or a JSON body, runs one SQL statement on a fresh connection and    *)
(* writes back a status line and a body.                                   *)
(*                                                                         *)
(* Text is modelled as sequences of one-character strings, so that prefix  *)
(* matching, splitting, integer parsing and JSON decoding are computed on  *)
(* the characters, as the code computes them.                              *)
(***************************************************************************)
EXTENDS Integers, Sequences, FiniteSets, TLC

VARIABLES
    phase,      \* position of main: "start", "listening", "exited", "panicked"
    tables,     \* the relations that exist in the database
    rows,       \* the rows of relation tasks: records [id, title, description]
    seq,        \* last value of the sequence behind tasks.id (SERIAL)
    request,    \* text of the last request read by handle_client
    response,   \* (status_line, content) computed for it, or NoResponse
    route,      \* the arm of the match in handle_client that was taken
    idToken,    \* what get_id returned in the handler, NoToken if not called
    stmt,       \* the statement the handler executed, "none" if none
    storeErr,   \* the store call that failed: "none", "connect", "statement"
    panicAt     \* where the process panicked: "none", "bind", "statement", "write"

vars == <<phase, tables, rows, seq, request, response, route, idToken, stmt,
          storeErr, panicAt>>

-----------------------------------------------------------------------------
(* Bounds of the model. *)

\* The sequence behind tasks.id is not advanced past this value.
MaxTasks == 2

\* Number of text pieces a generated request is made of (SpecText).
MaxPieces == 4

-----------------------------------------------------------------------------
(* Characters and text helpers (the std operations the code calls). *)

CR == "\r"
LF == "\n"
TAB == "\t"
QUOTE == "\""

\* char::is_whitespace for the characters of the model.
WhiteSpace == {" ", TAB, LF, CR}

Digit == {"0", "1", "2", "3", "4", "5", "6", "7", "8", "9"}

DigitVal(c) ==
    CASE c = "0" -> 0 [] c = "1" -> 1 [] c = "2" -> 2 [] c = "3" -> 3
      [] c = "4" -> 4 [] c = "5" -> 5 [] c = "6" -> 6 [] c = "7" -> 7
      [] c = "8" -> 8 [] c = "9" -> 9

DigitChar(d) ==
    CASE d = 0 -> "0" [] d = 1 -> "1" [] d = 2 -> "2" [] d = 3 -> "3"
      [] d = 4 -> "4" [] d = 5 -> "5" [] d = 6 -> "6" [] d = 7 -> "7"
      [] d = 8 -> "8" [] d = 9 -> "9"

I32Max == 2147483647
I32Min == -I32Max - 1
I32Tenth == I32Max \div 10

\* str::starts_with
StartsWith(s, p) ==
    /\ Len(p) <= Len(s)
    /\ \A i \in 1..Len(p) : s[i] = p[i]

\* Whether pattern p occurs in s at position i.
MatchAt(s, p, i) ==
    /\ i + Len(p) - 1 <= Len(s)
    /\ \A j \in 1..Len(p) : s[i + j - 1] = p[j]

\* Position of the leftmost occurrence of p in s at or after i, 0 if there
\* is none.
RECURSIVE FindFrom(_, _, _)
FindFrom(s, p, i) ==
    IF i + Len(p) - 1 > Len(s) THEN 0
    ELSE IF MatchAt(s, p, i) THEN i
    ELSE FindFrom(s, p, i + 1)

Find(s, p) == FindFrom(s, p, 1)

\* str::split(pattern): the segments between the non-overlapping occurrences
\* of a non-empty pattern, leftmost first; always at least one segment.
RECURSIVE Split(_, _)
Split(s, p) ==
    LET i == Find(s, p) IN
    IF i = 0 THEN <<s>>
    ELSE <<SubSeq(s, 1, i - 1)>> \o Split(SubSeq(s, i + Len(p), Len(s)), p)

\* Iterator::nth(n).unwrap_or_default() on a sequence of texts (n from 0).
NthOrDefault(segs, n) == IF n + 1 <= Len(segs) THEN segs[n + 1] ELSE <<>>

\* Iterator::last().unwrap_or_default()
LastOrDefault(segs) == IF Len(segs) = 0 THEN <<>> ELSE segs[Len(segs)]

\* The first position at or after i whose character is not whitespace,
\* Len(s) + 1 if there is none.
RECURSIVE SkipWhiteSpace(_, _)
SkipWhiteSpace(s, i) ==
    IF i > Len(s) \/ s[i] \notin WhiteSpace THEN i
    ELSE SkipWhiteSpace(s, i + 1)

\* The first position at or after i whose character is whitespace,
\* Len(s) + 1 if there is none.
RECURSIVE SkipToken(_, _)
SkipToken(s, i) ==
    IF i > Len(s) \/ s[i] \in WhiteSpace THEN i
    ELSE SkipToken(s, i + 1)

\* str::split_whitespace().next().unwrap_or_default(): the first maximal
\* run of non-whitespace characters, empty if there is none.
FirstToken(s) ==
    LET b == SkipWhiteSpace(s, 1) IN
    SubSeq(s, b, SkipToken(s, b) - 1)

ParseErr == [ok |-> FALSE, val |-> 0]

\* The digit loop of i32::from_str: the digits are accumulated left to right
\* with checked_mul and checked_add (checked_sub after a minus sign), so a
\* value outside 32 bits is an error.
RECURSIVE Accumulate(_, _)
Accumulate(ds, neg) ==
    IF Len(ds) = 0 THEN [ok |-> TRUE, val |-> 0]
    ELSE LET p == Accumulate(SubSeq(ds, 1, Len(ds) - 1), neg)
             d == DigitVal(ds[Len(ds)])
         IN  IF ~p.ok THEN ParseErr
             ELSE IF neg
             THEN IF p.val < -I32Tenth \/ 10 * p.val < I32Min + d THEN ParseErr
                  ELSE [ok |-> TRUE, val |-> 10 * p.val - d]
             ELSE IF p.val > I32Tenth \/ 10 * p.val > I32Max - d THEN ParseErr
                  ELSE [ok |-> TRUE, val |-> 10 * p.val + d]

\* str::parse::<i32>(): an optional sign, then one or more decimal digits,
\* whose value fits in 32 bits; anything else is an error.
ParseI32(tok) ==
    LET signed == Len(tok) > 0 /\ tok[1] \in {"+", "-"}
        ds     == IF signed THEN SubSeq(tok, 2, Len(tok)) ELSE tok
    IN  IF Len(ds) = 0 \/ \E i \in 1..Len(ds) : ds[i] \notin Digit
        THEN ParseErr
        ELSE Accumulate(ds, signed /\ tok[1] = "-")

\* Decimal text of a natural number (integer Display, as serde_json writes it).
RECURSIVE NatText(_)
NatText(n) ==
    IF n < 10 THEN <<DigitChar(n)>>
    ELSE NatText(n \div 10) \o <<DigitChar(n % 10)>>

IntText(n) == IF n < 0 THEN <<"-">> \o NatText(-n) ELSE NatText(n)

-----------------------------------------------------------------------------
(* Request parsing. *)

SLASH == <<"/">>
CRLFCRLF == <<CR, LF, CR, LF>>

\* get_id: the whole request is split on "/"; the third segment's first
\* whitespace-delimited token, empty when either is absent.
get_id(req) == FirstToken(NthOrDefault(Split(req, SLASH), 2))

\* The Option<i32> of Task.id.
None == [some |-> FALSE, val |-> 0]
Some(v) == [some |-> TRUE, val |-> v]

DecodeErr == [ok |-> FALSE, id |-> None, title |-> <<>>, description |-> <<>>]

\* JSON whitespace is skipped before and after the value.
RECURSIVE Trim(_)
Trim(s) ==
    IF Len(s) = 0 THEN s
    ELSE IF s[1] \in WhiteSpace THEN Trim(Tail(s))
    ELSE IF s[Len(s)] \in WhiteSpace THEN Trim(SubSeq(s, 1, Len(s) - 1))
    ELSE s

\* A JSON string without escapes: quotes around characters that are neither
\* a quote, a backslash nor a control character.
IsJsonString(v) ==
    /\ Len(v) >= 2
    /\ v[1] = QUOTE
    /\ v[Len(v)] = QUOTE
    /\ \A i \in 2..(Len(v) - 1) : v[i] \notin {QUOTE, "\\", CR, LF, TAB}

Unquote(v) == SubSeq(v, 2, Len(v) - 1)

\* A JSON integer: an optional minus, then digits without a leading zero.
IsJsonInteger(v) ==
    LET ds == IF Len(v) > 0 /\ v[1] = "-" THEN Tail(v) ELSE v IN
    /\ Len(ds) > 0
    /\ \A i \in 1..Len(ds) : ds[i] \in Digit
    /\ (Len(ds) > 1 => ds[1] # "0")

NULL == <<"n", "u", "l", "l">>

\* A member value of the supported JSON subset: a string, an integer or null.
IsJsonValue(v) == IsJsonString(v) \/ IsJsonInteger(v) \/ v = NULL

\* Whether a JSON value deserializes as Option<i32>: null, or an integer
\* that fits in 32 bits ("-0" is read as a float and rejected).
IsOptionI32(v) ==
    \/ v = NULL
    \/ /\ IsJsonInteger(v)
       /\ ParseI32(v).ok
       /\ v # <<"-", "0">>

KEY_ID == <<"i", "d">>
KEY_TITLE == <<"t", "i", "t", "l", "e">>
KEY_DESCRIPTION == <<"d", "e", "s", "c", "r", "i", "p", "t", "i", "o", "n">>

\* Every text of a sequence, split on p.
RECURSIVE SplitEach(_, _)
SplitEach(texts, p) ==
    IF Len(texts) = 0 THEN <<>>
    ELSE <<Split(texts[1], p)>> \o SplitEach(Tail(texts), p)

\* serde_json::from_str::<Task> on the JSON subset of the model: one object
\* whose members are "key":value pairs separated by commas, with no
\* whitespace inside, no escapes and no nesting (so no string holds a comma
\* or a colon).  title and description are required strings, id is an
\* optional integer or null, a repeated field is an error and an unknown
\* field is skipped.  Any other text is a decoding error.
from_str(text) ==
    LET t       == Trim(text)
        inner   == SubSeq(t, 2, Len(t) - 1)
        members == IF Len(inner) = 0 THEN <<>> ELSE Split(inner, <<",">>)
        kv      == SplitEach(members, <<":">>)
        wellFormed(i) ==
            /\ Len(kv[i]) = 2
            /\ IsJsonString(kv[i][1])
            /\ IsJsonValue(kv[i][2])
        with(k) == {i \in 1..Len(members) : Unquote(kv[i][1]) = k}
        value(k) == kv[CHOOSE i \in with(k) : TRUE][2]
    IN  IF Len(t) < 2 \/ t[1] # "{" \/ t[Len(t)] # "}" THEN DecodeErr
        ELSE IF \E i \in 1..Len(members) : ~wellFormed(i) THEN DecodeErr
        ELSE IF \/ Cardinality(with(KEY_TITLE)) # 1
                \/ Cardinality(with(KEY_DESCRIPTION)) # 1
                \/ Cardinality(with(KEY_ID)) > 1
             THEN DecodeErr
        ELSE IF \/ ~IsJsonString(value(KEY_TITLE))
                \/ ~IsJsonString(value(KEY_DESCRIPTION))
                \/ (with(KEY_ID) # {} /\ ~IsOptionI32(value(KEY_ID)))
             THEN DecodeErr
        ELSE [ok          |-> TRUE,
              id          |-> IF with(KEY_ID) = {} \/ value(KEY_ID) = NULL
                              THEN None
                              ELSE Some(ParseI32(value(KEY_ID)).val),
              title       |-> Unquote(value(KEY_TITLE)),
              description |-> Unquote(value(KEY_DESCRIPTION))]

\* get_task_request_body: the text after the last blank line, decoded.
get_task_request_body(req) == from_str(LastOrDefault(Split(req, CRLFCRLF)))

\* serde_json::to_string(&Task), for texts that need no escaping.
TaskJson(task) ==
    <<"{", QUOTE>> \o KEY_ID \o <<QUOTE, ":">>
        \o (IF task.id.some THEN IntText(task.id.val) ELSE NULL)
        \o <<",", QUOTE>> \o KEY_TITLE \o <<QUOTE, ":", QUOTE>> \o task.title
        \o <<QUOTE, ",", QUOTE>> \o KEY_DESCRIPTION \o <<QUOTE, ":", QUOTE>>
        \o task.description \o <<QUOTE, "}">>

RECURSIVE JoinJson(_)
JoinJson(tasks) ==
    IF Len(tasks) = 0 THEN <<>>
    ELSE IF Len(tasks) = 1 THEN TaskJson(tasks[1])
    ELSE TaskJson(tasks[1]) \o <<",">> \o JoinJson(Tail(tasks))

\* serde_json::to_string(&Vec<Task>)
TasksJson(tasks) == <<"[">> \o JoinJson(tasks) \o <<"]">>

-----------------------------------------------------------------------------
(* Routing. *)

POST_TASKS == <<"P", "O", "S", "T", " ", "/", "t", "a", "s", "k", "s">>
GET_TASKS_SLASH == <<"G", "E", "T", " ", "/", "t", "a", "s", "k", "s", "/">>
GET_TASKS == <<"G", "E", "T", " ", "/", "t", "a", "s", "k", "s">>
PUT_TASKS_SLASH == <<"P", "U", "T", " ", "/", "t", "a", "s", "k", "s", "/">>
DELETE_TASKS_SLASH ==
    <<"D", "E", "L", "E", "T", "E", " ", "/", "t", "a", "s", "k", "s", "/">>

\* MatchRoute with the two GET arms in the other order.
MatchRouteGetAllFirst(req) ==
    IF StartsWith(req, POST_TASKS) THEN "Create"
    ELSE IF StartsWith(req, GET_TASKS) THEN "ReadAll"
    ELSE IF StartsWith(req, GET_TASKS_SLASH) THEN "ReadOne"
    ELSE IF StartsWith(req, PUT_TASKS_SLASH) THEN "Update"
    ELSE IF StartsWith(req, DELETE_TASKS_SLASH) THEN "Delete"
    ELSE "NotFound"

\* The match of handle_client: the first arm whose guard holds.
MatchRoute(req) ==
    IF StartsWith(req, POST_TASKS) THEN "Create"
    ELSE IF StartsWith(req, GET_TASKS_SLASH) THEN "ReadOne"
    ELSE IF StartsWith(req, GET_TASKS) THEN "ReadAll"
    ELSE IF StartsWith(req, PUT_TASKS_SLASH) THEN "Update"
    ELSE IF StartsWith(req, DELETE_TASKS_SLASH) THEN "Delete"
    ELSE "NotFound"

-----------------------------------------------------------------------------
(* The store: a PostgreSQL database, seen through the statements the code
   sends.  A statement fails when it names a relation that does not exist or
   a column the relation does not have. *)

\* The relation set_database creates, and the one the handlers use.
SchemaTable == "taskss"
TasksTable == "tasks"

\* The columns set_database declares; the handlers read id, title and
\* description from relation tasks, which has the same columns when it exists.
TaskColumns == {"id", "title", "description"}

InsertColumns == {"title", "description"}
UpdateColumns == {"name", "email", "id"}
DeleteColumns == {"id"}
SelectColumns == {"id", "title", "description"}

Prepares(db, table, columns) ==
    /\ table \in db.tables
    /\ columns \subseteq TaskColumns

Ids(rs) == {r.id : r \in rs}

ExecErr(db) == [ok |-> FALSE, affected |-> 0, rows |-> db.rows, seq |-> db.seq]

\* INSERT INTO tasks (title, description) VALUES ($1, $2): id defaults to
\* the next value of the sequence; the primary key rejects a duplicate.
ExecInsert(db, title, description) ==
    LET id == db.seq + 1 IN
    IF ~Prepares(db, TasksTable, InsertColumns) \/ id \in Ids(db.rows)
    THEN ExecErr(db)
    ELSE [ok       |-> TRUE,
          affected |-> 1,
          rows     |-> db.rows \cup {[id |-> id, title |-> title,
                                      description |-> description]},
          seq      |-> id]

\* UPDATE tasks SET name = $1, email = $2 WHERE id = $3
ExecUpdate(db, title, description, id) ==
    IF ~Prepares(db, TasksTable, UpdateColumns) THEN ExecErr(db)
    ELSE LET hit == {r \in db.rows : r.id = id} IN
         [ok       |-> TRUE,
          affected |-> Cardinality(hit),
          rows     |-> (db.rows \ hit) \cup
                       {[id |-> r.id, title |-> title,
                         description |-> description] : r \in hit},
          seq      |-> db.seq]

\* DELETE FROM tasks WHERE id = $1
ExecDelete(db, id) ==
    IF ~Prepares(db, TasksTable, DeleteColumns) THEN ExecErr(db)
    ELSE LET hit == {r \in db.rows : r.id = id} IN
         [ok       |-> TRUE,
          affected |-> Cardinality(hit),
          rows     |-> db.rows \ hit,
          seq      |-> db.seq]

\* QueryById without the WHERE clause.
QueryByIdNoWhere(db, id) ==
    IF ~Prepares(db, TasksTable, SelectColumns) THEN {}
    ELSE db.rows

\* The rows SELECT ... FROM tasks WHERE id = $1 returns; query_one is an
\* error unless there is exactly one.
QueryById(db, id) ==
    IF ~Prepares(db, TasksTable, SelectColumns) THEN {}
    ELSE {r \in db.rows : r.id = id}

\* The orders in which the store may return a set of rows.
Orderings(rs) ==
    {o \in [1..Cardinality(rs) -> rs] :
        \A i, j \in 1..Cardinality(rs) : o[i] = o[j] => i = j}

\* Task { id: row.get(0), title: row.get(1), description: row.get(2) }
TaskOfRow(r) ==
    [id |-> Some(r.id), title |-> r.title, description |-> r.description]

RECURSIVE TasksOfRows(_)
TasksOfRows(o) ==
    IF Len(o) = 0 THEN <<>>
    ELSE <<TaskOfRow(o[1])>> \o TasksOfRows(Tail(o))

-----------------------------------------------------------------------------
(* Responses. *)

OK_RESPONSE == "HTTP/1.1 200 OK\r\nContent-Type: application/json\r\n\r\n"
NOT_FOUND == "HTTP/1.1 404 NOT FOUND\r\n\r\n"
INTERNAL_ERROR == "HTTP/1.1 500 INTERNAL ERROR\r\n\r\n"

USER_CREATED == <<"U", "s", "e", "r", " ", "c", "r", "e", "a", "t", "e", "d">>
USER_UPDATED == <<"U", "s", "e", "r", " ", "u", "p", "d", "a", "t", "e", "d">>
USER_DELETED == <<"U", "s", "e", "r", " ", "d", "e", "l", "e", "t", "e", "d">>
USER_NOT_FOUND ==
    <<"U", "s", "e", "r", " ", "n", "o", "t", " ", "f", "o", "u", "n", "d">>
TASK_NOT_FOUND ==
    <<"T", "a", "s", "k", " ", "n", "o", "t", " ", "f", "o", "u", "n", "d">>
INTERNAL_ERROR_BODY ==
    <<"I", "n", "t", "e", "r", "n", "a", "l", " ", "e", "r", "r", "o", "r">>
NOT_FOUND_BODY ==
    <<"4", "0", "4", " ", "n", "o", "t", " ", "f", "o", "u", "n", "d">>

NoResponse == [status |-> "", content |-> <<>>]
NoToken == [called |-> FALSE, token |-> <<>>]
Token(t) == [called |-> TRUE, token |-> t]

\* What a handler does: the pair it returns and the statement it ran.
Replied(status, content, rs, sq, st, err, tok) ==
    [panic |-> FALSE, status |-> status, content |-> content, rows |-> rs,
     seq |-> sq, stmt |-> st, storeErr |-> err, idToken |-> tok]

\* The handler unwraps the error of a failed statement: the thread panics
\* and nothing is returned.
Panicked(db, st, tok) ==
    [panic |-> TRUE, status |-> "", content |-> <<>>, rows |-> db.rows,
     seq |-> db.seq, stmt |-> st, storeErr |-> "statement", idToken |-> tok]

ConnectErr(connOk) == IF connOk THEN "none" ELSE "connect"

InternalError(db, connOk, tok) ==
    Replied(INTERNAL_ERROR, INTERNAL_ERROR_BODY, db.rows, db.seq, "none",
            ConnectErr(connOk), tok)

-----------------------------------------------------------------------------
(* The five handlers.  connOk is whether Client::connect succeeds. *)

\* handle_post_request inserting the id of the body when it has one.
handle_post_request_body_id(req, connOk, db) ==
    LET task == get_task_request_body(req)
        id   == IF task.id.some THEN task.id.val ELSE db.seq + 1
    IN  IF task.ok /\ connOk
        THEN IF ~Prepares(db, TasksTable, InsertColumns) \/ id \in Ids(db.rows)
             THEN Panicked(db, "INSERT", NoToken)
             ELSE Replied(OK_RESPONSE, USER_CREATED,
                          db.rows \cup {[id |-> id, title |-> task.title,
                                         description |-> task.description]},
                          IF task.id.some THEN db.seq ELSE id,
                          "INSERT", "none", NoToken)
        ELSE InternalError(db, connOk, NoToken)

handle_post_request(req, connOk, db) ==
    LET task == get_task_request_body(req) IN
    IF task.ok /\ connOk
    THEN LET ex == ExecInsert(db, task.title, task.description) IN
         IF ex.ok
         THEN Replied(OK_RESPONSE, USER_CREATED, ex.rows, ex.seq, "INSERT",
                      "none", NoToken)
         ELSE Panicked(db, "INSERT", NoToken)
    ELSE InternalError(db, connOk, NoToken)

\* handle_get_request answering Not-Found to an id that does not parse.
handle_get_request_404(req, connOk, db) ==
    LET tok == get_id(req)
        id  == ParseI32(tok)
    IN  IF id.ok /\ connOk
        THEN LET found == QueryById(db, id.val) IN
             IF Cardinality(found) = 1
             THEN Replied(OK_RESPONSE,
                          TaskJson(TaskOfRow(CHOOSE r \in found : TRUE)),
                          db.rows, db.seq, "SELECT", "none", Token(tok))
             ELSE Replied(NOT_FOUND, TASK_NOT_FOUND, db.rows, db.seq, "SELECT",
                          "none", Token(tok))
        ELSE IF connOk
        THEN Replied(NOT_FOUND, TASK_NOT_FOUND, db.rows, db.seq, "none",
                     "none", Token(tok))
        ELSE InternalError(db, connOk, Token(tok))

handle_get_request(req, connOk, db) ==
    LET tok == get_id(req)
        id  == ParseI32(tok)
    IN  IF id.ok /\ connOk
        THEN LET found == QueryById(db, id.val) IN
             IF Cardinality(found) = 1
             THEN Replied(OK_RESPONSE,
                          TaskJson(TaskOfRow(CHOOSE r \in found : TRUE)),
                          db.rows, db.seq, "SELECT", "none", Token(tok))
             ELSE Replied(NOT_FOUND, TASK_NOT_FOUND, db.rows, db.seq, "SELECT",
                          IF Prepares(db, TasksTable, SelectColumns)
                          THEN "none" ELSE "statement",
                          Token(tok))
        ELSE InternalError(db, connOk, Token(tok))

\* order is the order in which the store returns the rows.
handle_get_all_request(req, connOk, db, order) ==
    IF connOk
    THEN IF Prepares(db, TasksTable, SelectColumns)
         THEN Replied(OK_RESPONSE, TasksJson(TasksOfRows(order)), db.rows,
                      db.seq, "SELECT", "none", NoToken)
         ELSE Panicked(db, "SELECT", NoToken)
    ELSE InternalError(db, connOk, NoToken)

handle_put_request(req, connOk, db) ==
    LET tok  == get_id(req)
        id   == ParseI32(tok)
        task == get_task_request_body(req)
    IN  IF id.ok /\ task.ok /\ connOk
        THEN LET ex == ExecUpdate(db, task.title, task.description, id.val) IN
             IF ex.ok
             THEN Replied(OK_RESPONSE, USER_UPDATED, ex.rows, ex.seq, "UPDATE",
                          "none", Token(tok))
             ELSE Panicked(db, "UPDATE", Token(tok))
        ELSE InternalError(db, connOk, Token(tok))

\* handle_delete_request without the test of rows_affected.
handle_delete_request_unchecked(req, connOk, db) ==
    LET tok == get_id(req)
        id  == ParseI32(tok)
    IN  IF id.ok /\ connOk
        THEN LET ex == ExecDelete(db, id.val) IN
             IF ~ex.ok THEN Panicked(db, "DELETE", Token(tok))
             ELSE Replied(OK_RESPONSE, USER_DELETED, ex.rows, ex.seq, "DELETE",
                          "none", Token(tok))
        ELSE InternalError(db, connOk, Token(tok))

handle_delete_request(req, connOk, db) ==
    LET tok == get_id(req)
        id  == ParseI32(tok)
    IN  IF id.ok /\ connOk
        THEN LET ex == ExecDelete(db, id.val) IN
             IF ~ex.ok THEN Panicked(db, "DELETE", Token(tok))
             ELSE IF ex.affected = 0
             THEN Replied(NOT_FOUND, USER_NOT_FOUND, ex.rows, ex.seq, "DELETE",
                          "none", Token(tok))
             ELSE Replied(OK_RESPONSE, USER_DELETED, ex.rows, ex.seq, "DELETE",
                          "none", Token(tok))
        ELSE InternalError(db, connOk, Token(tok))

\* The arm of the match in handle_client.
Dispatch(req, connOk, db, order) ==
    LET arm == MatchRoute(req) IN
    CASE arm = "Create"  -> handle_post_request(req, connOk, db)
      [] arm = "ReadOne" -> handle_get_request(req, connOk, db)
      [] arm = "ReadAll" -> handle_get_all_request(req, connOk, db, order)
      [] arm = "Update"  -> handle_put_request(req, connOk, db)
      [] arm = "Delete"  -> handle_delete_request(req, connOk, db)
      [] OTHER -> Replied(NOT_FOUND, NOT_FOUND_BODY, db.rows, db.seq, "none",
                          "none", NoToken)

-----------------------------------------------------------------------------
(* The requests clients send. *)

HTTP_TAIL == <<" ", "H", "T", "T", "P", "/", "1", ".", "1", CR, LF, CR, LF>>

POST == <<"P", "O", "S", "T">>
GET == <<"G", "E", "T">>
PUT == <<"P", "U", "T">>
DELETE == <<"D", "E", "L", "E", "T", "E">>
PATCH == <<"P", "A", "T", "C", "H">>

PATH_TASKS == <<"/", "t", "a", "s", "k", "s">>
PATH_ITEMS == <<"/", "i", "t", "e", "m", "s">>

BODY_AB ==
    <<"{", "\"", "t", "i", "t", "l", "e", "\"", ":", "\"", "a", "\"", ",",
      "\"", "d", "e", "s", "c", "r", "i", "p", "t", "i", "o", "n", "\"", ":",
      "\"", "b", "\"", "}">>
BODY_ID_CD ==
    <<"{", "\"", "i", "d", "\"", ":", "1", ",", "\"", "t", "i", "t", "l", "e",
      "\"", ":", "\"", "c", "\"", ",", "\"", "d", "e", "s", "c", "r", "i", "p",
      "t", "i", "o", "n", "\"", ":", "\"", "d", "\"", "}">>
BODY_NO_DESCRIPTION ==
    <<"{", "\"", "t", "i", "t", "l", "e", "\"", ":", "\"", "a", "\"", "}">>
BODY_NOT_JSON == <<"o", "o", "p", "s">>

Bodies == {BODY_AB, BODY_ID_CD, BODY_NO_DESCRIPTION, BODY_NOT_JSON}

\* The id segments of the paths: every id the store can assign, one it never
\* assigns, a word and a number that does not fit in 32 bits.
IdTexts ==
    {IntText(i) : i \in 1..(MaxTasks + 1)}
        \cup {<<"a", "b", "c">>,
              <<"2", "1", "4", "7", "4", "8", "3", "6", "4", "8">>}

IdPaths == {PATH_TASKS \o SLASH \o t : t \in IdTexts}

Req(method, path, body) == method \o <<" ">> \o path \o HTTP_TAIL \o body

Requests ==
    {Req(POST, PATH_TASKS, b) : b \in Bodies}
        \cup {Req(GET, p, <<>>) : p \in {PATH_TASKS, PATH_ITEMS} \cup IdPaths}
        \cup {Req(PUT, p, b) : p \in IdPaths, b \in {BODY_AB, BODY_NOT_JSON}}
        \cup {Req(DELETE, p, <<>>) : p \in IdPaths}
        \cup {Req(PATCH, PATH_TASKS, <<>>)}

\* Request texts made of at most MaxPieces pieces: the five routes' words,
\* a lower-case one, and the characters get_id looks at.
Pieces ==
    {POST \o <<" ">> \o PATH_TASKS, GET \o <<" ">> \o PATH_TASKS,
     PUT \o <<" ">> \o PATH_TASKS, DELETE \o <<" ">> \o PATH_TASKS,
     <<"g", "e", "t", " ">> \o PATH_TASKS,
     <<"/">>, <<"1">>, <<" ">>, <<CR, LF>>}

RECURSIVE Texts(_)
Texts(n) ==
    IF n = 0 THEN {<<>>}
    ELSE LET shorter == Texts(n - 1) IN
         shorter \cup {t \o p : t \in shorter, p \in Pieces}

TextRequests == Texts(MaxPieces)

-----------------------------------------------------------------------------
(* The process. *)

\* The database the process is started against holds relation tasks or does
\* not; nothing is stored yet.
Init ==
    /\ phase = "start"
    /\ tables \in {{}, {TasksTable}}
    /\ rows = {}
    /\ seq = 0
    /\ request = <<>>
    /\ response = NoResponse
    /\ route = "none"
    /\ idToken = NoToken
    /\ stmt = "none"
    /\ storeErr = "none"
    /\ panicAt = "none"

\* set_database: CREATE TABLE IF NOT EXISTS taskss (...)
set_database(existing, connOk, execOk) ==
    IF connOk /\ execOk
    THEN [ok |-> TRUE, tables |-> existing \cup {SchemaTable}]
    ELSE [ok |-> FALSE, tables |-> existing]

\* main up to the accept loop: set_database, then bind (unwrapped).
Startup ==
    /\ phase = "start"
    /\ \E connOk, execOk, bindOk \in BOOLEAN :
          LET set == set_database(tables, connOk, execOk) IN
          /\ tables' = set.tables
          /\ phase' = IF ~set.ok THEN "exited"
                      ELSE IF bindOk THEN "listening" ELSE "panicked"
          /\ panicAt' = IF set.ok /\ ~bindOk THEN "bind" ELSE "none"
    /\ UNCHANGED <<rows, seq, request, response, route, idToken, stmt, storeErr>>

\* handle_client on a connection whose read returns req: route, run the
\* handler, write the response (unwrapped).
handle_client(req, connOk, writeOk, order) ==
    \E res \in {Dispatch(req, connOk,
                         [tables |-> tables, rows |-> rows, seq |-> seq],
                         order)} :
        /\ res.seq <= MaxTasks
        /\ request' = req
        /\ route' = MatchRoute(req)
        /\ idToken' = res.idToken
        /\ stmt' = res.stmt
        /\ storeErr' = res.storeErr
        /\ rows' = res.rows
        /\ seq' = res.seq
        /\ response' = IF res.panic THEN NoResponse
                       ELSE [status |-> res.status, content |-> res.content]
        /\ phase' = IF res.panic \/ ~writeOk THEN "panicked" ELSE phase
        /\ panicAt' = IF res.panic THEN "statement"
                      ELSE IF ~writeOk THEN "write" ELSE panicAt
        /\ UNCHANGED tables

RowOrders(req) ==
    IF MatchRoute(req) = "ReadAll" THEN Orderings(rows) ELSE {<<>>}

\* One iteration of the accept loop with a connection that is read.
ServeClient ==
    /\ phase = "listening"
    /\ \E req \in Requests, connOk, writeOk \in BOOLEAN :
          \E order \in RowOrders(req) :
             handle_client(req, connOk, writeOk, order)

\* One iteration of the accept loop with a failed accept or a failed read:
\* a message is printed and the loop goes on.
ConnectionError ==
    /\ phase = "listening"
    /\ UNCHANGED vars

Next == Startup \/ ServeClient \/ ConnectionError

Spec == Init /\ [][Next]_vars

\* The first connection served after startup, with any request text.
ServeFirstClient ==
    /\ phase = "listening"
    /\ route = "none"
    /\ \E req \in TextRequests, connOk, writeOk \in BOOLEAN :
          \E order \in RowOrders(req) :
             handle_client(req, connOk, writeOk, order)

NextText == Startup \/ ServeFirstClient

SpecText == Init /\ [][NextText]_vars

-----------------------------------------------------------------------------
(* Properties. *)

Reply(status, content) == [status |-> status, content |-> content]

\* Whether text s begins with text p.
HasPrefix(s, p) == Len(s) >= Len(p) /\ SubSeq(s, 1, Len(p)) = p

\* The routes in the order in which their prefixes are tried.
RouteTable ==
    <<[prefix |-> POST_TASKS, op |-> "Create"],
      [prefix |-> GET_TASKS_SLASH, op |-> "ReadOne"],
      [prefix |-> GET_TASKS, op |-> "ReadAll"],
      [prefix |-> PUT_TASKS_SLASH, op |-> "Update"],
      [prefix |-> DELETE_TASKS_SLASH, op |-> "Delete"]>>

Handled == route # "none"
Connected == storeErr # "connect"
ParsedId == ParseI32(idToken.token)

\* C1: every request is routed to the first entry of the route table whose
\* prefix it begins with; a request that begins with none of them gets the
\* Not-Found response and no handler runs; a request that begins with
\* "GET /tasks/" is never routed to ReadAll.
C1_RouteByPrefix ==
    Handled =>
        LET hits == {i \in 1..Len(RouteTable) :
                        HasPrefix(request, RouteTable[i].prefix)}
        IN  /\ hits # {} =>
                route = RouteTable[CHOOSE i \in hits :
                                       \A j \in hits : i <= j].op
            /\ hits = {} =>
                /\ route = "NotFound"
                /\ response = Reply(NOT_FOUND, NOT_FOUND_BODY)
                /\ ~idToken.called
                /\ stmt = "none"
                /\ storeErr = "none"
            /\ HasPrefix(request, GET_TASKS_SLASH) => route # "ReadAll"

\* A request that begins with both GET prefixes was routed to ReadOne.
C1_Witness ==
    /\ route = "ReadOne"
    /\ HasPrefix(request, GET_TASKS)
    /\ HasPrefix(request, GET_TASKS_SLASH)

\* A Delete request whose statement ran in the step.
DeleteRan == route' = "Delete" /\ stmt' = "DELETE" /\ storeErr' = "none"

\* C2: when the delete statement of a Delete request has run, the response
\* is Not-Found exactly when no stored task had the id (zero rows affected)
\* and OK "User deleted" otherwise, and afterwards no stored task has the id
\* while every other task is kept; a Delete of the id whose Delete was just
\* answered OK is answered Not-Found.
C2_DeleteTwice ==
    [][ /\ DeleteRan =>
            LET id == ParseI32(idToken'.token).val IN
            /\ (response' = Reply(NOT_FOUND, USER_NOT_FOUND)) <=> (id \notin Ids(rows))
            /\ (response' = Reply(OK_RESPONSE, USER_DELETED)) <=> (id \in Ids(rows))
            /\ rows' = {r \in rows : r.id # id}
        /\ ( /\ route = "Delete"
             /\ response = Reply(OK_RESPONSE, USER_DELETED)
             /\ DeleteRan
             /\ ParseI32(idToken'.token).val = ParsedId.val )
            => response' = Reply(NOT_FOUND, USER_NOT_FOUND)
      ]_vars

\* A Delete of an id the store had assigned found nothing to delete.
C2_Witness ==
    /\ route = "Delete"
    /\ stmt = "DELETE"
    /\ response = Reply(NOT_FOUND, USER_NOT_FOUND)
    /\ ParsedId.val \in 1..seq
    /\ ParsedId.val \notin Ids(rows)

\* C4: a ReadOne request with an integer id and a connection is answered
\* Not-Found when no stored task has the id, and OK with the JSON text of the
\* stored task (its id, title and description) when one has.
C4_ReadOne ==
    (route = "ReadOne" /\ ParsedId.ok /\ Connected) =>
        LET found == {r \in rows : r.id = ParsedId.val} IN
        /\ found = {} => response = Reply(NOT_FOUND, TASK_NOT_FOUND)
        /\ \A r \in found :
              /\ response.status = OK_RESPONSE
              /\ from_str(response.content) =
                    [ok |-> TRUE, id |-> Some(r.id), title |-> r.title,
                     description |-> r.description]

\* A ReadOne request was answered with a stored task while another is stored.
C4_Witness ==
    /\ route = "ReadOne"
    /\ response.status = OK_RESPONSE
    /\ Cardinality(rows) >= 2

IdFails == route' \in {"ReadOne", "Update", "Delete"} /\ ~ParseI32(get_id(request')).ok
BodyFails == route' \in {"Create", "Update"} /\ ~get_task_request_body(request').ok
ConnectFails ==
    /\ route' \in {"Create", "ReadOne", "ReadAll", "Update", "Delete"}
    /\ storeErr' = "connect"

\* C5: a request whose id does not parse, whose body does not decode or
\* whose connection fails is answered Internal-Error "Internal error", and
\* no statement runs: the store is as it was.
C5_InternalError ==
    [][ (IdFails \/ BodyFails \/ ConnectFails) =>
            /\ response' = Reply(INTERNAL_ERROR, INTERNAL_ERROR_BODY)
            /\ stmt' = "none"
            /\ rows' = rows
            /\ seq' = seq
      ]_vars

\* A ReadOne request with a word for an id was answered Internal-Error.
C5_Witness ==
    /\ route = "ReadOne"
    /\ idToken.called
    /\ ~ParsedId.ok
    /\ Connected
    /\ response = Reply(INTERNAL_ERROR, INTERNAL_ERROR_BODY)

\* C9: no two stored tasks have the same id; a step keeps the id of every
\* task it keeps, and a task it adds has the id the store assigns (the next
\* value of the sequence, used by no stored task), whatever the body says.
C9_IdAssignedOnce ==
    [][ /\ \A r, q \in rows' : r.id = q.id => r = q
        /\ \A r \in rows' :
              \/ r \in rows
              \/ /\ r.id = seq + 1
                 /\ seq' = seq + 1
                 /\ r.id \notin Ids(rows)
      ]_vars

\* The body that carries "id":1 was stored under the id the store assigned.
C9_Witness ==
    /\ get_task_request_body(request).id = Some(1)
    /\ route = "Create"
    /\ response = Reply(OK_RESPONSE, USER_CREATED)
    /\ \E r \in rows : r.id = 2 /\ r.title = <<"c">>

CreateValid ==
    /\ route' = "Create"
    /\ get_task_request_body(request').ok
    /\ storeErr' # "connect"

\* C3: a Create request with a valid body and a connection is answered OK
\* "User created" and adds exactly one task, with the posted title and
\* description and an id no stored task has; a ReadAll request with a
\* connection is answered OK with the JSON list of the stored tasks.
C3_CreateThenReadAll ==
    [][ /\ CreateValid =>
            LET task == get_task_request_body(request') IN
            /\ response' = Reply(OK_RESPONSE, USER_CREATED)
            /\ \E r \in rows' :
                  /\ rows' = rows \cup {r}
                  /\ r.id \notin Ids(rows)
                  /\ r.title = task.title
                  /\ r.description = task.description
        /\ (route' = "ReadAll" /\ storeErr' # "connect") =>
            /\ response'.status = OK_RESPONSE
            /\ response'.content \in
                  {TasksJson(TasksOfRows(o)) : o \in Orderings(rows')}
      ]_vars

\* C6: once startup has succeeded, a ReadAll request with a connection made
\* while no task is stored is answered OK with the empty JSON array.
C6_ReadAllEmpty ==
    (route = "ReadAll" /\ Connected /\ rows = {}) =>
        response = Reply(OK_RESPONSE, <<"[", "]">>)

\* C7: a request during which a store call fails is answered Not-Found or
\* Internal-Error, and the process does not stop on it.
C7_StoreFailureNotFatal ==
    storeErr # "none" =>
        /\ response.status \in {NOT_FOUND, INTERNAL_ERROR}
        /\ panicAt # "statement"

UpdateValid ==
    /\ route' = "Update"
    /\ ParseI32(get_id(request')).ok
    /\ get_task_request_body(request').ok
    /\ storeErr' # "connect"

\* C8: with relation tasks in the database, an Update request with an
\* integer id, a valid body and a connection is answered OK "User updated" whether or not a task has the id; the task
\* with the id gets the posted title and description and no other changes.
C8_Update ==
    [][ (UpdateValid /\ TasksTable \in tables) =>
            LET id   == ParseI32(get_id(request')).val
                task == get_task_request_body(request')
            IN  /\ response' = Reply(OK_RESPONSE, USER_UPDATED)
                /\ rows' = {r \in rows : r.id # id} \cup
                           {[id |-> r.id, title |-> task.title,
                             description |-> task.description] :
                                r \in {q \in rows : q.id = id}}
      ]_vars

\* The first line of a text: what precedes the first line feed, without a
\* carriage return at its end.
FirstLine(text) ==
    LET line == Split(text, <<LF>>)[1] IN
    IF Len(line) > 0 /\ line[Len(line)] = CR
    THEN SubSeq(line, 1, Len(line) - 1)
    ELSE line

\* C10: the id token a handler extracts is the first whitespace-delimited
\* token of the third "/"-delimited segment of the request's first line,
\* empty when there is none: later lines do not affect it.
C10_IdFromFirstLine ==
    idToken.called =>
        idToken.token = FirstToken(NthOrDefault(Split(FirstLine(request), SLASH), 2))

=============================================================================
